---------------------------- MODULE Spec2Model ----------------------------
(***************************************************************************)
(* Model of the Build class of barkprotocol/build.                         *)
(*                                                                         *)
(* The repository holds the class twice: src/build.ts (variant "ts") and   *)
(* src/unnamed/part_002, the older build.js (variant "js").  Both are      *)
(* modelled; the variant is an input of every call.                        *)
(*                                                                         *)
(*   status(cluster, sig, max, int)  the confirmation poller               *)
(*   tx(options)                     the transaction assembler, with       *)
(*                                   ComputeLimit and FeeEstimate          *)
(*                                                                         *)
(* Every await is a step boundary: an action is the code that runs from    *)
(* one await (or the call) to the next.  The priority tier and the lookup  *)
(* tables are handed unchanged to the RPC calls and are left out.          *)
(***************************************************************************)
EXTENDS Integers, Sequences, FiniteSets, TLC

VARIABLES
    poll,   \* the state of one status() invocation (its closure and timer)
    obs,    \* what an observer of that invocation has counted so far
    req,    \* the options object the caller hands to tx()
    build,  \* the state of one tx() invocation (its locals and position)
    net,    \* the RPC calls that invocation has issued and their responses
    loop,   \* the status() invocations running on one event loop, by signature
    alone,  \* each of those invocations as it runs with no other beside it
    twin    \* status() of build.ts and of build.js called with the same
            \* arguments and given the same responses

pollVars == <<poll, obs>>
buildVars == <<req, build, net>>
multiVars == <<loop, alone>>
twinVars == <<twin>>
vars == <<poll, obs, req, build, net, loop, alone, twin>>

Variants == {"ts", "js"}

-----------------------------------------------------------------------------
(* Bounds of the model *)

\* largest maxAttempts drawn besides the default
MaxAttempts == 3
\* most status queries awaiting their response at one time
MaxInflight == 2
\* largest maxAttempts drawn for polls that run side by side
MultiAttempts == 2

\* defaults of status(cluster, sig, max = 10, int = 4)
DefaultMax == 10
DefaultInt == 4

MaxChoices == (1 .. MaxAttempts) \cup {DefaultMax}
IntChoices == {1, DefaultInt}

Max2(a, b) == IF a >= b THEN a ELSE b
Min2(a, b) == IF a <= b THEN a ELSE b

\* the observer's counters saturate here, above every maxAttempts + 1
ObsCap == Max2(MaxAttempts, DefaultMax) + MaxInflight + 2
Count(n) == Min2(n + 1, ObsCap)

-----------------------------------------------------------------------------
(* status: the confirmation poller *)

\* what getSignatureStatuses can answer for the one signature asked
\*   rejected      the call throws (transport error)
\*   notfound      value[0] is null
\*   confirmed     confirmationStatus is "processed" or "confirmed"
\*   finalized     confirmationStatus is "finalized", err is null
\*   finalizedErr  confirmationStatus is "finalized", err is set
Responses == {"rejected", "notfound", "confirmed", "finalized", "finalizedErr"}

IsFinalized(r) == r \in {"finalized", "finalizedErr"}
HasErr(r) == r = "finalizedErr"

\* the value of the promise status() returns
Unresolved == [settled |-> FALSE, text |-> "", secs |-> 0]
Value(t) == [settled |-> TRUE, text |-> t, secs |-> 0]
MaxWait(p) == [settled |-> TRUE, text |-> "seconds max wait reached",
               secs |-> p.max * p.int]

IdlePoll == [variant |-> "none", max |-> 0, int |-> 0, start |-> 0,
             intervalID |-> "none", inflight |-> 0, promise |-> Unresolved]

\* status() up to the return of the promise: start = 1, setInterval
NewPoll(v, m, i) == [variant |-> v, max |-> m, int |-> i, start |-> 1,
                     intervalID |-> "set", inflight |-> 0,
                     promise |-> Unresolved]

\* a promise whose value every resolve replaces
ResolveOverwrites(p, value) == [p EXCEPT !.promise = value]

\* resolve(value): only the first resolve of a promise has an effect
Resolve(p, value) ==
    IF p.promise.settled THEN p ELSE [p EXCEPT !.promise = value]

ClearInterval(p) == [p EXCEPT !.intervalID = "cleared"]

Finish(p, value) == ClearInterval(Resolve(p, value))

\* the timer fires: the callback runs up to its await, the query is sent
SendQuery(p) == [p EXCEPT !.inflight = @ + 1]

\* TsDecide with the wait budget tested by >= in place of >
TsDecideOffByOne(p, r) ==
    IF r = "rejected"
    THEN Finish(p, Value("Error checking status"))
    ELSE LET p1 == IF IsFinalized(r)
                   THEN IF HasErr(r)
                        THEN Finish(p, Value("Program error!"))
                        ELSE Finish(p, Value("Finalized"))
                   ELSE p
             p2 == [p1 EXCEPT !.start = @ + 1]
         IN  IF p2.start >= p2.max THEN Finish(p2, MaxWait(p2)) ELSE p2

\* build.ts: the callback after its await, on response r
TsDecide(p, r) ==
    IF r = "rejected"
    THEN Finish(p, Value("Error checking status"))
    ELSE LET p1 == IF IsFinalized(r)
                   THEN IF HasErr(r)
                        THEN Finish(p, Value("Program error!"))
                        ELSE Finish(p, Value("Finalized"))
                   ELSE p
             p2 == [p1 EXCEPT !.start = @ + 1]
         IN  IF p2.start > p2.max THEN Finish(p2, MaxWait(p2)) ELSE p2

\* JsDecide with the wait budget tested before the reported status
JsDecideTimeoutFirst(p, r) ==
    IF r = "rejected"
    THEN p
    ELSE LET p1 == IF p.start >= p.max
                   THEN Finish(p, MaxWait(p))
                   ELSE IF IsFinalized(r)
                        THEN IF HasErr(r)
                             THEN Finish(p, Value("program error!"))
                             ELSE Finish(p, Value("finalized"))
                        ELSE p
         IN  [p1 EXCEPT !.start = @ + 1]

\* JsDecide with the wait budget tested by > as build.ts tests it
JsDecideStrictBudget(p, r) ==
    IF r = "rejected"
    THEN p
    ELSE LET p1 == IF IsFinalized(r)
                   THEN IF HasErr(r)
                        THEN Finish(p, Value("program error!"))
                        ELSE Finish(p, Value("finalized"))
                   ELSE IF p.start > p.max
                        THEN Finish(p, MaxWait(p))
                        ELSE p
         IN  [p1 EXCEPT !.start = @ + 1]

\* build.js: the callback after its await, on response r; a rejected query
\* throws out of the callback before any statement runs
JsDecide(p, r) ==
    IF r = "rejected"
    THEN p
    ELSE LET p1 == IF IsFinalized(r)
                   THEN IF HasErr(r)
                        THEN Finish(p, Value("program error!"))
                        ELSE Finish(p, Value("finalized"))
                   ELSE IF p.start >= p.max
                        THEN Finish(p, MaxWait(p))
                        ELSE p
         IN  [p1 EXCEPT !.start = @ + 1]

Decide(p, r) ==
    LET q == [p EXCEPT !.inflight = @ - 1]
    IN  IF p.variant = "ts" THEN TsDecide(q, r) ELSE JsDecide(q, r)

\* the ConfirmationState a promise value stands for
ConfirmationState(v) ==
    IF ~v.settled THEN "Pending"
    ELSE IF v.text \in {"Finalized", "finalized"} THEN "Finalized"
    ELSE IF v.text \in {"Program error!", "program error!"} THEN "FailedOnChain"
    ELSE IF v.text = "seconds max wait reached" THEN "TimedOut"
    ELSE "PollError"

Terminal == {"Finalized", "FailedOnChain", "TimedOut", "PollError"}

-----------------------------------------------------------------------------
(* the observer *)

NoObs == [issued |-> 0, decided |-> 0, last |-> "none",
          rejected |-> FALSE, finalized |-> FALSE,
          cancelled |-> FALSE, issuedAtSettle |-> 0, decidedAtSettle |-> 0,
          maxInflight |-> 0]

ObsSettle(o, p, q) ==
    IF ~p.promise.settled /\ q.promise.settled
    THEN [o EXCEPT !.issuedAtSettle = o.issued, !.decidedAtSettle = o.decided]
    ELSE o

InitPoll ==
    /\ poll = IdlePoll
    /\ obs = NoObs

\* the caller invokes status(cluster, sig, m, i) of variant v
StatusCall(v, m, i) ==
    /\ poll.intervalID = "none"
    /\ poll' = NewPoll(v, m, i)
    /\ obs' = NoObs
    /\ UNCHANGED <<buildVars, multiVars, twinVars>>

\* the interval timer fires
StatusTick ==
    /\ poll.intervalID = "set"
    /\ poll.inflight < MaxInflight
    /\ poll' = SendQuery(poll)
    /\ obs' = [obs EXCEPT !.issued = Count(@), !.last = "tick",
                          !.maxInflight = Max2(@, poll.inflight + 1)]
    /\ UNCHANGED <<buildVars, multiVars, twinVars>>

\* a status query returns or fails
StatusRespond(r) ==
    /\ poll.inflight > 0
    /\ poll' = Decide(poll, r)
    /\ obs' = ObsSettle([obs EXCEPT !.decided = Count(@), !.last = r,
                                    !.rejected = @ \/ r = "rejected",
                                    !.finalized = @ \/ IsFinalized(r)],
                        poll, poll')
    /\ UNCHANGED <<buildVars, multiVars, twinVars>>

\* the caller wants to cancel: status() takes no signal and hands out no
\* handle, so nothing of the poll changes
StatusCancel ==
    /\ poll.intervalID = "set"
    /\ ~obs.cancelled
    /\ obs' = [obs EXCEPT !.cancelled = TRUE, !.last = "cancel"]
    /\ UNCHANGED <<poll, buildVars, multiVars, twinVars>>

PollNext ==
    \/ \E v \in Variants, m \in MaxChoices, i \in IntChoices : StatusCall(v, m, i)
    \/ StatusTick
    \/ \E r \in Responses : StatusRespond(r)
    \/ StatusCancel

-----------------------------------------------------------------------------
(* status() of both variants side by side *)

\* the responses of a query that does not fail
Answers == Responses \ {"rejected"}

\* at: the tick whose response settled the promise, 0 while it is pending
NoTwin == [ticks |-> 0,
           inv |-> [v \in Variants |-> [poll |-> IdlePoll, issued |-> 0, at |-> 0]]]

InitTwin == twin = NoTwin

\* status(cluster, sig, m, i) is called in build.ts and in build.js
TwinCall(m, i) ==
    /\ \A v \in Variants : twin.inv[v].poll.intervalID = "none"
    /\ twin' = [twin EXCEPT
                  !.inv = [v \in Variants |->
                              [poll |-> NewPoll(v, m, i), issued |-> 0, at |-> 0]]]
    /\ UNCHANGED <<pollVars, buildVars, multiVars>>

\* i seconds have passed and every query sent has been answered: each
\* timer that is still set fires
TwinTick ==
    /\ \E v \in Variants : twin.inv[v].poll.intervalID = "set"
    /\ \A v \in Variants : twin.inv[v].poll.inflight = 0
    /\ twin' = [twin EXCEPT
                  !.ticks = @ + 1,
                  !.inv = [v \in Variants |->
                              IF twin.inv[v].poll.intervalID = "set"
                              THEN [twin.inv[v] EXCEPT !.poll = SendQuery(@),
                                                       !.issued = @ + 1]
                              ELSE twin.inv[v]]]
    /\ UNCHANGED <<pollVars, buildVars, multiVars>>

\* the queries of this tick are answered r
TwinRespond(r) ==
    /\ \E v \in Variants : twin.inv[v].poll.inflight > 0
    /\ twin' = [twin EXCEPT
                  !.inv = [v \in Variants |->
                              LET x == twin.inv[v]
                                  q == Decide(x.poll, r)
                              IN  IF x.poll.inflight = 0 THEN x
                                  ELSE [x EXCEPT
                                          !.poll = q,
                                          !.at = IF ~x.poll.promise.settled
                                                    /\ q.promise.settled
                                                 THEN twin.ticks ELSE @]]]
    /\ UNCHANGED <<pollVars, buildVars, multiVars>>

TwinNext ==
    \/ \E m \in MaxChoices, i \in IntChoices : TwinCall(m, i)
    \/ TwinTick
    \/ \E r \in Answers : TwinRespond(r)

-----------------------------------------------------------------------------
(* several status() invocations on one event loop *)

\* the signatures polled at the same time
Sigs == {"sigA", "sigB"}

\* the count of the queries of one signature saturates here
IssuedCap == MultiAttempts + MaxInflight + 1

NoInvocation == [poll |-> IdlePoll, issued |-> 0]

\* a callback that reads the counter of the first invocation, as it would
\* if start were one variable of the class
ClosureSharedStart(l, s) == [l[s].poll EXCEPT !.start = l["sigA"].poll.start]

\* what the callback of the invocation for signature s closes over: start,
\* intervalID, resolve, max and int of that call of status()
Closure(l, s) == l[s].poll

Sent(x) == [x EXCEPT !.issued = Min2(@ + 1, IssuedCap)]

InitMulti ==
    /\ loop = [s \in Sigs |-> NoInvocation]
    /\ alone = [s \in Sigs |-> NoInvocation]

\* the caller invokes status(cluster, s, m, i) of variant v
MultiCall(s, v, m, i) ==
    /\ Closure(loop, s).intervalID = "none"
    /\ loop' = [loop EXCEPT ![s] = [poll |-> NewPoll(v, m, i), issued |-> 0]]
    /\ alone' = [alone EXCEPT ![s] = [poll |-> NewPoll(v, m, i), issued |-> 0]]
    /\ UNCHANGED <<pollVars, buildVars, twinVars>>

\* the interval timer of the invocation for s fires
MultiTick(s) ==
    /\ Closure(loop, s).intervalID = "set"
    /\ Closure(loop, s).inflight < MaxInflight
    /\ loop' = [loop EXCEPT ![s] = Sent([@ EXCEPT !.poll = SendQuery(Closure(loop, s))])]
    /\ alone' = [alone EXCEPT ![s] = Sent([@ EXCEPT !.poll = SendQuery(@)])]
    /\ UNCHANGED <<pollVars, buildVars, twinVars>>

\* a status query for s returns or fails
MultiRespond(s, r) ==
    /\ Closure(loop, s).inflight > 0
    /\ loop' = [loop EXCEPT ![s].poll = Decide(Closure(loop, s), r)]
    /\ alone' = [alone EXCEPT ![s].poll = Decide(@, r)]
    /\ UNCHANGED <<pollVars, buildVars, twinVars>>

MultiNext ==
    \/ \E s \in Sigs, v \in Variants, m \in 1 .. MultiAttempts :
           MultiCall(s, v, m, DefaultInt)
    \/ \E s \in Sigs : MultiTick(s)
    \/ \E s \in Sigs, r \in Responses : MultiRespond(s, r)

-----------------------------------------------------------------------------
(* tx: the transaction assembler *)

\* ComputeBudgetProgram.setComputeUnitLimit({ units: 1400000 }) of ComputeLimit
SimCeiling == 1400000
\* Math.max(feeEstimate, 10000) of FeeEstimate
FeeFloor == 10000
\* a value that is no number: NaN, or the object ComputeLimit returns
NotANumber == -1

\* instructions: the caller's are opaque, the two directives carry a value
User(n) == [kind |-> "user", val |-> n]
Limit(n) == [kind |-> "limit", val |-> n]
Price(n) == [kind |-> "price", val |-> n]

InstructionLists == {<<>>, <<User(1)>>, <<User(1), User(2)>>, <<User(2), User(1)>>}

\* tolerance, in quarters: 1.25 and 1.5.  The multipliers drawn are exact
\* binary fractions, so that the product the code computes in floating
\* point is the exact product (the default, 1.1, is not one)
ToleranceChoices == {5, 6}

\* CeilMul with Math.floor in place of Math.ceil
FloorMul(units, quarters) == (units * quarters) \div 4

\* Math.ceil(consumedUnits * tolerance), the tolerance given in quarters
CeilMul(units, quarters) == (units * quarters + 3) \div 4

\* Unshift with Array.prototype.push in its place
Push(ixs, ix) == Append(ixs, ix)

\* Array.prototype.unshift
Unshift(ixs, ix) == <<ix>> \o ixs

\* the logs field of a simulation response: null, or the lines
NoLogs == [null |-> TRUE, lines |-> <<>>]
Lines(l) == [null |-> FALSE, lines |-> l]
LogChoices == {NoLogs, Lines(<<>>), Lines(<<"log A", "log B">>)}

\* the options of tx(): rpc and account are present or not, instructions
\* is an array or undefined
ValidRequests ==
    [rpc : {TRUE}, account : {TRUE}, hasInstructions : {TRUE},
     instructions : InstructionLists, signers : BOOLEAN,
     tolerance : ToleranceChoices, serialize : BOOLEAN, encode : BOOLEAN,
     compute : BOOLEAN, fees : BOOLEAN]

InvalidRequests ==
    { [rpc |-> f[1], account |-> f[2], hasInstructions |-> f[3],
       instructions |-> IF f[3] THEN <<User(1)>> ELSE <<>>, signers |-> FALSE,
       tolerance |-> 5, serialize |-> FALSE, encode |-> FALSE,
       compute |-> c, fees |-> c] :
      f \in {g \in [1 .. 3 -> BOOLEAN] : ~(g[1] /\ g[2] /\ g[3])}, c \in BOOLEAN }

Requests == ValidRequests \cup InvalidRequests

NoRequest == [rpc |-> FALSE, account |-> FALSE, hasInstructions |-> FALSE,
              instructions |-> <<>>, signers |-> FALSE, tolerance |-> 5,
              serialize |-> FALSE, encode |-> FALSE, compute |-> FALSE,
              fees |-> FALSE]

\* the responses of the RPC client
Checkpoints == {1, 2}
BlockhashResponses ==
    {[ok |-> FALSE, blockhash |-> 0]} \cup
    {[ok |-> TRUE, blockhash |-> b] : b \in Checkpoints}

UnitChoices == {7, 10}
SimResponses ==
    {[ok |-> FALSE, err |-> FALSE, logs |-> NoLogs, units |-> 0]} \cup
    {[ok |-> TRUE, err |-> TRUE, logs |-> l, units |-> 0] : l \in LogChoices} \cup
    {[ok |-> TRUE, err |-> FALSE, logs |-> Lines(<<>>), units |-> u] : u \in UnitChoices}

\* the fee oracle: the fetch fails, the body has no result, the result has
\* no numeric priorityFeeEstimate, or it has one: n + frac / 10
FeeResponses ==
    {[kind |-> k, n |-> 0, frac |-> 0] :
        k \in {"rejected", "noResult", "noEstimate"}} \cup
    {[kind |-> "number", n |-> n, frac |-> 0] : n \in {0, 5000, FeeFloor, 20000}} \cup
    {[kind |-> "number", n |-> n, frac |-> 5] : n \in {FeeFloor - 1, 20000}}

\* what the web3.js constructor of a directive does with a value that is
\* no number is not decided by this repository
DirectiveOutcomes == {"built", "throws"}

-----------------------------------------------------------------------------
(* serialization and base64 *)

RECURSIVE LE(_, _)
\* n as w little-endian bytes
LE(n, w) == IF w = 0 THEN <<>> ELSE <<n % 256>> \o LE(n \div 256, w - 1)

\* the instruction data of the compute budget program: the discriminator,
\* then u32 units or u64 microLamports; a value that is no number is
\* written as 0
IxBytes(ix) ==
    LET n == IF ix.val = NotANumber THEN 0 ELSE ix.val
    IN  IF ix.kind = "limit" THEN <<2>> \o LE(n, 4)
        ELSE IF ix.kind = "price" THEN <<3>> \o LE(n, 8)
        ELSE <<0, n>>

RECURSIVE Flatten(_)
Flatten(ixs) == IF ixs = <<>> THEN <<>> ELSE IxBytes(Head(ixs)) \o Flatten(Tail(ixs))

\* transaction.serialize(): the signature count, the checkpoint, the
\* number of instructions, the instructions
Serialize(ixs, blockhash, signed) ==
    <<IF signed THEN 1 ELSE 0>> \o <<blockhash>> \o <<Len(ixs)>> \o Flatten(ixs)

\* an encoding that drops the bytes after the last whole group of three
RECURSIVE Base64WholeGroups(_)
Base64WholeGroups(b) ==
    IF Len(b) < 3 THEN <<>>
    ELSE <<b[1] \div 4, (b[1] % 4) * 16 + b[2] \div 16,
           (b[2] % 16) * 4 + b[3] \div 64, b[3] % 64>>
         \o Base64WholeGroups(SubSeq(b, 4, Len(b)))

\* Buffer.toString("base64"): the sextets (0..63) of each group of three
\* bytes, 64 standing for the padding character
RECURSIVE Base64(_)
Base64(b) ==
    IF Len(b) = 0 THEN <<>>
    ELSE IF Len(b) = 1
    THEN <<b[1] \div 4, (b[1] % 4) * 16, 64, 64>>
    ELSE IF Len(b) = 2
    THEN <<b[1] \div 4, (b[1] % 4) * 16 + b[2] \div 16, (b[2] % 16) * 4, 64>>
    ELSE <<b[1] \div 4, (b[1] % 4) * 16 + b[2] \div 16,
           (b[2] % 16) * 4 + b[3] \div 64, b[3] % 64>>
         \o Base64(SubSeq(b, 4, Len(b)))

-----------------------------------------------------------------------------
(* ComputeLimit, FeeEstimate and tx *)

\* what tx() returns: a failure object, a success payload in one form, or
\* a rejection of its promise
NoResult == [kind |-> "none", message |-> "", logs |-> NoLogs, form |-> "none",
             ixs |-> <<>>, blockhash |-> 0, signed |-> FALSE, data |-> <<>>]
Failure(msg, logs) == [NoResult EXCEPT !.kind = "failure", !.message = msg,
                                       !.logs = logs]
Thrown(msg) == [NoResult EXCEPT !.kind = "thrown", !.message = msg]

IdleBuild == [variant |-> "none", pc |-> "idle", instructions |-> <<>>,
              blockhash |-> 0, again |-> FALSE, result |-> NoResult]

\* the first of two calls with the same options object: what it returned
\* and what the RPC client answered
NoFirst == [set |-> FALSE, result |-> NoResult, blockhash |-> 0,
            sim |-> [ok |-> FALSE, err |-> FALSE, logs |-> NoLogs, units |-> 0],
            fee |-> [kind |-> "none", n |-> 0, frac |-> 0]]

NoNet == [calls |-> <<>>, orig |-> <<>>,
          sim |-> [ok |-> FALSE, err |-> FALSE, logs |-> NoLogs, units |-> 0],
          fee |-> [kind |-> "none", n |-> 0, frac |-> 0],
          first |-> NoFirst]

RpcCall(method, ixs, blockhash) ==
    [method |-> method, ixs |-> ixs, blockhash |-> blockhash]

\* ComputeLimit after its await: an error object or the optimized units
ComputeLimit(v, resp, tolerance) ==
    IF resp.err
    THEN [isObject |-> TRUE, units |-> NotANumber, logs |-> resp.logs,
          message |-> IF v = "ts" THEN "Error during simulation"
                      ELSE "error during simulation"]
    ELSE [isObject |-> FALSE, units |-> CeilMul(resp.units, tolerance),
          logs |-> NoLogs, message |-> ""]

\* tx's test of what ComputeLimit returned: computeLimit.logs is truthy
\* (an array, even an empty one, is; null is not)
HasLogs(cl) == cl.isObject /\ ~cl.logs.null

\* what tx returns on a simulation failure
SimulationFailure(v, cl) ==
    IF v = "ts" THEN Failure(cl.message, cl.logs)
    ELSE Failure("error when simulating the transaction", cl.logs)

\* parseInt(priorityFeeEstimate, 10) of a number not below 0: the digits up
\* to the decimal point
ParseInt(resp) == resp.n

\* a FeeEstimate that returns the parsed estimate as it is
FeeEstimateNoFloor(v, resp) ==
    IF resp.kind \in {"rejected", "noResult"}
    THEN [threw |-> TRUE, fee |-> NotANumber]
    ELSE IF resp.kind = "noEstimate"
    THEN [threw |-> FALSE, fee |-> NotANumber]
    ELSE [threw |-> FALSE, fee |-> ParseInt(resp)]

\* FeeEstimate after its await: it throws, or returns
\* Math.max(parseInt(priorityFeeEstimate), 10000), which is NaN for NaN
FeeEstimate(v, resp) ==
    IF resp.kind \in {"rejected", "noResult"}
    THEN [threw |-> TRUE, fee |-> NotANumber]
    ELSE IF resp.kind = "noEstimate"
    THEN [threw |-> FALSE, fee |-> NotANumber]
    ELSE [threw |-> FALSE, fee |-> Max2(ParseInt(resp), FeeFloor)]

\* tx from the compilation of the final message to its return
Finalize(v, r, ixs, blockhash) ==
    LET signed == r.signers
        bytes == Serialize(ixs, blockhash, signed)
        payload == [NoResult EXCEPT !.kind = "success", !.ixs = ixs,
                                    !.blockhash = blockhash, !.signed = signed]
    IN  IF v = "ts"
        THEN IF r.encode /\ ~r.serialize
             THEN Thrown("Buffer.from(transaction)")
             ELSE [payload EXCEPT
                     !.message = IF r.serialize \/ r.encode THEN "Success"
                                 ELSE "Transaction built successfully",
                     !.form = IF r.encode THEN "base64"
                              ELSE IF r.serialize THEN "bytes" ELSE "object",
                     !.data = IF r.encode THEN Base64(bytes)
                              ELSE IF r.serialize THEN bytes ELSE <<>>]
        ELSE IF r.serialize
             THEN [payload EXCEPT
                     !.form = IF r.encode THEN "base64" ELSE "bytes",
                     !.data = IF r.encode THEN Base64(bytes) ELSE bytes]
             ELSE [payload EXCEPT !.message = "success", !.form = "object"]

Done(b, result) == [b EXCEPT !.pc = "done", !.result = result]

\* the instruction list tx works on: a copy in build.ts, the caller's own
\* array in build.js
Working(b, r) == b.instructions
Store(b, r, ixs) == [b EXCEPT !.instructions = ixs]
CallerArray(b, r, ixs) ==
    IF b.variant = "js" THEN [r EXCEPT !.instructions = ixs] ELSE r

\* tx after its compute block, the working list being ixs
FeeStage(b, r, n, ixs) ==
    IF r.fees
    THEN <<[Store(b, r, ixs) EXCEPT !.pc = "fee"],
           [n EXCEPT !.calls = Append(@, RpcCall("getPriorityFeeEstimate", ixs,
                                                  b.blockhash))]>>
    ELSE <<Done(Store(b, r, ixs), Finalize(b.variant, r, ixs, b.blockhash)), n>>

\* ComputeStage with the compute toggle ignored
ComputeStageAlways(b, r, n, ixs) ==
    <<[Store(b, r, ixs) EXCEPT !.pc = "simulate"],
      [n EXCEPT !.calls = Append(@, RpcCall("simulateTransaction",
                              <<Limit(SimCeiling)>> \o ixs, b.blockhash))]>>

\* tx after getLatestBlockhash, the working list being ixs
ComputeStage(b, r, n, ixs) ==
    IF r.compute
    THEN <<[Store(b, r, ixs) EXCEPT !.pc = "simulate"],
           [n EXCEPT !.calls = Append(@, RpcCall("simulateTransaction",
                                   <<Limit(SimCeiling)>> \o ixs, b.blockhash))]>>
    ELSE FeeStage(b, r, n, ixs)

\* a validation that forgets the instructions
ValidateWithoutInstructions(v, r) ==
    IF v = "ts"
    THEN IF ~r.rpc \/ ~r.account
         THEN "Missing required parameters" ELSE ""
    ELSE IF ~r.rpc THEN "missing rpc"
    ELSE IF ~r.account THEN "missing account"
    ELSE ""

\* tx up to its first await: the required fields, then getLatestBlockhash
Validate(v, r) ==
    IF v = "ts"
    THEN IF ~r.rpc \/ ~r.account \/ ~r.hasInstructions
         THEN "Missing required parameters" ELSE ""
    ELSE IF ~r.rpc THEN "missing rpc"
    ELSE IF ~r.account THEN "missing account"
    ELSE IF ~r.hasInstructions THEN "missing instructions"
    ELSE ""

EnterFrom(v, r, again, first) ==
    LET b == [IdleBuild EXCEPT !.variant = v, !.again = again]
        n == [NoNet EXCEPT !.orig = r.instructions, !.first = first]
    IN  /\ req' = r
        /\ IF Validate(v, r) # ""
           THEN /\ build' = Done(b, Failure(Validate(v, r), NoLogs))
                /\ net' = n
           ELSE /\ build' = [b EXCEPT !.pc = "blockhash"]
                /\ net' = [n EXCEPT !.calls = <<RpcCall("getLatestBlockhash", <<>>, 0)>>]

Enter(v, r, again) == EnterFrom(v, r, again, NoFirst)

InitBuild ==
    /\ req = NoRequest
    /\ build = IdleBuild
    /\ net = NoNet

\* the caller invokes tx(r) of variant v
TxCall(v, r) ==
    /\ build.pc = "idle"
    /\ Enter(v, r, FALSE)
    /\ UNCHANGED <<pollVars, multiVars, twinVars>>

\* the caller invokes tx once more with the same options object
TxCallAgain ==
    /\ build.pc = "done"
    /\ ~build.again
    /\ Enter(build.variant, req, TRUE)
    /\ UNCHANGED <<pollVars, multiVars, twinVars>>

\* the caller invokes tx once more with the same options object, and the
\* RPC client is going to answer what it answered the first time
TxRepeat ==
    /\ build.pc = "done"
    /\ ~build.again
    /\ EnterFrom(build.variant, req, TRUE,
                 [set |-> TRUE, result |-> build.result,
                  blockhash |-> build.blockhash, sim |-> net.sim,
                  fee |-> net.fee])
    /\ UNCHANGED <<pollVars, multiVars, twinVars>>

\* whether a response is the one the first call got
SameBlockhash(resp) ==
    net.first.set =>
        resp = (IF net.first.blockhash = 0 THEN [ok |-> FALSE, blockhash |-> 0]
                ELSE [ok |-> TRUE, blockhash |-> net.first.blockhash])
SameSim(resp) == net.first.set => resp = net.first.sim
SameFee(resp) == net.first.set => resp = net.first.fee

\* getLatestBlockhash returns or fails
TxBlockhash(resp) ==
    /\ build.pc = "blockhash"
    /\ UNCHANGED <<pollVars, multiVars, twinVars>>
    /\ IF ~resp.ok
       THEN /\ build' = Done(build, Thrown("getLatestBlockhash"))
            /\ UNCHANGED <<req, net>>
       ELSE LET b == [build EXCEPT !.blockhash = resp.blockhash]
                next == ComputeStage(b, req, net, req.instructions)
            IN  /\ build' = next[1]
                /\ net' = next[2]
                /\ UNCHANGED req

\* simulateTransaction returns or fails; lib is what the directive's
\* constructor does with a value that is no number
TxSimulate(resp, lib) ==
    /\ build.pc = "simulate"
    /\ UNCHANGED <<pollVars, multiVars, twinVars>>
    /\ LET n == [net EXCEPT !.sim = resp]
           cl == ComputeLimit(build.variant, resp, req.tolerance)
           ixs == Unshift(Working(build, req), Limit(cl.units))
           next == FeeStage(build, CallerArray(build, req, ixs), n, ixs)
       IN  IF ~resp.ok
           THEN /\ build' = Done(build, Thrown("simulateTransaction"))
                /\ net' = n
                /\ UNCHANGED req
           ELSE IF HasLogs(cl)
           THEN /\ build' = Done(build, SimulationFailure(build.variant, cl))
                /\ net' = n
                /\ UNCHANGED req
           ELSE IF cl.isObject /\ lib = "throws"
           THEN /\ build' = Done(build, Thrown("setComputeUnitLimit"))
                /\ net' = n
                /\ UNCHANGED req
           ELSE /\ build' = next[1]
                /\ net' = next[2]
                /\ req' = CallerArray(build, req, ixs)

\* the fee oracle returns or fails
TxFee(resp, lib) ==
    /\ build.pc = "fee"
    /\ UNCHANGED <<pollVars, multiVars, twinVars>>
    /\ LET n == [net EXCEPT !.fee = resp]
           est == FeeEstimate(build.variant, resp)
           ixs == Unshift(Working(build, req), Price(est.fee))
           r == CallerArray(build, req, ixs)
       IN  IF est.threw
           THEN /\ build' = Done(build, Thrown(IF build.variant = "ts"
                                                THEN "Failed to estimate fee"
                                                ELSE "fetch"))
                /\ net' = n
                /\ UNCHANGED req
           ELSE IF est.fee = NotANumber /\ lib = "throws"
           THEN /\ build' = Done(build, Thrown("setComputeUnitPrice"))
                /\ net' = n
                /\ UNCHANGED req
           ELSE /\ build' = Done(Store(build, r, ixs),
                                 Finalize(build.variant, r, ixs, build.blockhash))
                /\ net' = n
                /\ req' = r

BuildNext ==
    \/ build.pc = "idle" /\ \E v \in Variants, r \in Requests : TxCall(v, r)
    \/ TxCallAgain
    \/ \E resp \in BlockhashResponses : TxBlockhash(resp)
    \/ \E resp \in SimResponses, lib \in DirectiveOutcomes : TxSimulate(resp, lib)
    \/ \E resp \in FeeResponses, lib \in DirectiveOutcomes : TxFee(resp, lib)

-----------------------------------------------------------------------------
(* Specifications *)

Init == InitPoll /\ InitBuild /\ InitMulti /\ InitTwin

Next == PollNext \/ BuildNext \/ MultiNext \/ TwinNext

\* the whole class
Spec == Init /\ [][Next]_vars

\* status alone
SpecPoll == Init /\ [][PollNext]_vars

\* status, the timer firing for ever and every query returning or failing
FairSpecPoll ==
    /\ SpecPoll
    /\ WF_vars(StatusTick)
    /\ WF_vars(\E r \in Responses : StatusRespond(r))

\* status of build.ts beside status of build.js, failure-free and
\* without latency
SpecTwin == Init /\ [][TwinNext]_vars

\* several invocations of status side by side
SpecMulti == Init /\ [][MultiNext]_vars

\* tx alone
SpecBuild == Init /\ [][BuildNext]_vars

\* tx called twice with the same options object and the same responses
TwiceNext ==
    \/ build.pc = "idle" /\ \E v \in Variants, r \in Requests : TxCall(v, r)
    \/ TxRepeat
    \/ \E resp \in BlockhashResponses : SameBlockhash(resp) /\ TxBlockhash(resp)
    \/ \E resp \in SimResponses, lib \in DirectiveOutcomes :
           SameSim(resp) /\ TxSimulate(resp, lib)
    \/ \E resp \in FeeResponses, lib \in DirectiveOutcomes :
           SameFee(resp) /\ TxFee(resp, lib)

SpecTwice == Init /\ [][TwiceNext]_vars


-----------------------------------------------------------------------------
(* Claims about status *)

Started == poll.intervalID # "none"
Settled == poll.promise.settled
State == ConfirmationState(poll.promise)

C2_NeverMoreThanMaxQueries ==
    Started => obs.issued <= poll.max

\* C3: a status query that fails while the poll is pending makes the poll
\* PollError and clears the timer, and after a failed query no further
\* status query is issued.
C3_QueryFailureIsPollError ==
    /\ [][(obs'.last = "rejected" /\ ~Settled) =>
              (ConfirmationState(poll'.promise) = "PollError"
               /\ poll'.intervalID = "cleared")]_pollVars
    /\ [][obs.rejected => obs'.issued = obs.issued]_pollVars

\* C4: every invocation of status eventually reaches a terminal state and
\* stops ticking, when the timer keeps firing and every query returns or
\* fails.
C4_PollTerminates ==
    [](Started => <>(State \in Terminal /\ poll.intervalID = "cleared"))

\* C5: when the first response reporting "finalized" is decided while the
\* poll is pending, the poll becomes FailedOnChain if an error is attached
\* and Finalized if not, on that very tick, the timer is cleared, and no
\* status query is issued once the poll has settled.
C5_FinalizedSettlesOnItsTick ==
    /\ [][(IsFinalized(obs'.last) /\ ~obs.finalized /\ ~Settled) =>
              /\ ConfirmationState(poll'.promise) =
                     (IF HasErr(obs'.last) THEN "FailedOnChain" ELSE "Finalized")
              /\ poll'.intervalID = "cleared"
              /\ obs'.issuedAtSettle = obs.issued]_pollVars
    /\ [][Settled => obs'.issued = obs.issued]_pollVars

C5_Witness ==
    /\ poll.max = 10
    /\ State = "FailedOnChain" /\ obs.last = "finalizedErr"
    /\ obs.issued = 3 /\ obs.decided = 3 /\ obs.issuedAtSettle = 3
    /\ poll.intervalID = "cleared" /\ poll.inflight = 0

\* C6: once cancellation has been signalled the poll has stopped: the timer
\* is cleared, no status query is issued any more, and the promise holds a
\* terminal value that is none of Finalized, FailedOnChain, TimedOut and
\* PollError.
C6_CancelStopsPoll ==
    [][obs.cancelled =>
          /\ poll.intervalID = "cleared"
          /\ poll.promise.settled
          /\ poll.promise.text \notin {"Finalized", "finalized", "Program error!",
                 "program error!", "seconds max wait reached",
                 "Error checking status"}
          /\ obs'.issued = obs.issued]_pollVars

-----------------------------------------------------------------------------
(* Claims about tx *)

Returned == build.pc = "done"
Delivered == Returned /\ build.result.kind = "success"
Final == build.result.ixs
SimulationOk == net.sim.ok /\ ~net.sim.err
SimulationErr == net.sim.ok /\ net.sim.err
Called(method) == \E i \in 1 .. Len(net.calls) : net.calls[i].method = method

\* build.ts cannot encode what it did not serialize: Buffer.from throws
EncodeThrows ==
    /\ build.variant = "ts" /\ req.encode /\ ~req.serialize
    /\ build.result = Thrown("Buffer.from(transaction)")

\* u is the least whole number of units not below units * quarters / 4
IsCeil(u, units, quarters) ==
    /\ 4 * u >= units * quarters
    /\ 4 * (u - 1) < units * quarters

\* C7: whenever the dry run reports an error, whatever its logs, tx returns
\* a failure whose logs are the reported ones, no payload, and no fee
\* oracle call is issued.
C7_SimulationErrorAborts ==
    SimulationErr =>
        /\ Returned
        /\ build.result.kind = "failure"
        /\ build.result.logs = net.sim.logs
        /\ build.result.form = "none"
        /\ ~Called("getPriorityFeeEstimate")

\* C8: with compute and fee optimization enabled and both estimators
\* succeeding, tx delivers a payload (build.ts: unless asked to encode
\* without serializing) whose instructions are one price directive, one
\* limit directive, then the caller's instructions in their order.
C8_PriceBudgetThenOriginal ==
    (Returned /\ req.compute /\ req.fees /\ SimulationOk
        /\ net.fee.kind = "number") =>
        /\ Delivered \/ EncodeThrows
        /\ Delivered =>
              /\ Len(Final) = Len(net.orig) + 2
              /\ Final[1].kind = "price"
              /\ Final[2].kind = "limit"
              /\ SubSeq(Final, 3, Len(Final)) = net.orig

C8_Witness ==
    /\ Delivered /\ req.compute /\ req.fees
    /\ net.orig = <<User(2), User(1)>>
    /\ Final = <<Price(20000), Limit(9), User(2), User(1)>>

\* C9 as stated: with compute optimization enabled, the first instruction
\* of the final sequence is a limit directive of
\* ceil(consumedUnits * tolerance) units.
C9_BudgetDirectiveFirst ==
    (Delivered /\ req.compute /\ SimulationOk) =>
        /\ Final[1].kind = "limit"
        /\ IsCeil(Final[1].val, net.sim.units, req.tolerance)

\* C9 as amended: with compute optimization enabled and a simulation that
\* reports no error, the limit directive of ceil(consumedUnits * tolerance)
\* units is the first instruction when fee optimization is disabled, and
\* the second, right after the price directive, when it is enabled.
C9_BudgetDirectiveLeadsCallerInstructions ==
    (Delivered /\ req.compute /\ SimulationOk) =>
        LET i == IF req.fees THEN 2 ELSE 1
        IN  /\ Final[i].kind = "limit"
            /\ IsCeil(Final[i].val, net.sim.units, req.tolerance)
            /\ req.fees => Final[1].kind = "price"
            /\ SubSeq(Final, i + 1, Len(Final)) = net.orig

C9_Witness ==
    /\ Delivered /\ req.compute /\ ~req.fees
    /\ net.sim.units = 7 /\ req.tolerance = 5
    /\ Final = <<Limit(9), User(1), User(2)>>

\* C10: for a valid request with compute and fee optimization disabled, no
\* simulation and no fee oracle call is ever issued, and tx delivers a
\* payload (build.ts: unless asked to encode without serializing) whose
\* instructions are the caller's, unchanged.
C10_DisabledLeavesInstructions ==
    (build.pc # "idle" /\ Validate(build.variant, req) = ""
        /\ ~req.compute /\ ~req.fees) =>
        /\ ~Called("simulateTransaction")
        /\ ~Called("getPriorityFeeEstimate")
        /\ (Returned /\ build.blockhash # 0) => Delivered \/ EncodeThrows
        /\ Delivered => Final = net.orig /\ req.instructions = net.orig

C10_Witness ==
    /\ Delivered /\ ~req.compute /\ ~req.fees
    /\ net.orig = <<User(2), User(1)>>
    /\ Final = <<User(2), User(1)>>
    /\ net.calls = <<RpcCall("getLatestBlockhash", <<>>, 0)>>

\* C11: a request that lacks the endpoint, the fee payer or the instructions
\* is answered with a failure, and no network call (getLatestBlockhash,
\* simulateTransaction, getPriorityFeeEstimate) is issued for it.
Incomplete == ~req.rpc \/ ~req.account \/ ~req.hasInstructions

C11_IncompleteRequestRejectedOffline ==
    (build.pc # "idle" /\ Incomplete) =>
        /\ Returned
        /\ build.result.kind = "failure"
        /\ build.result.message # ""
        /\ net.calls = <<>>

C11_Witness ==
    /\ Returned /\ req.rpc /\ req.account /\ ~req.hasInstructions
    /\ build.result.kind = "failure"
    /\ net.calls = <<>>

\* C12: when tx is called twice in succession with the same options object,
\* without signers, and the checkpoint, the simulation and the fee oracle
\* answer the second call as they answered the first, the second call
\* delivers the payload the first delivered: the same instructions, the same
\* checkpoint, the same form and bytes.
SecondReturned == Returned /\ build.again /\ net.first.set

SameResponses ==
    /\ build.blockhash = net.first.blockhash
    /\ net.sim = net.first.sim
    /\ net.fee = net.first.fee

C12_SecondCallSamePayload ==
    (SecondReturned /\ ~req.signers /\ SameResponses
        /\ net.first.result.kind = "success" /\ Delivered) =>
        /\ Final = net.first.result.ixs
        /\ build.result = net.first.result

\* C13: a build that gets as far as its output delivers exactly one form,
\* chosen by the toggles: the transaction object when neither serialize nor
\* encode is set, the raw bytes when only serialize is set, and base64 text
\* of the bytes whenever encode is set, with serialize or without.
Bytes == Serialize(Final, build.result.blockhash, build.result.signed)

ExpectedForm ==
    IF req.encode THEN "base64" ELSE IF req.serialize THEN "bytes" ELSE "object"

C13_EncodeImpliesSerialize ==
    /\ build.result # Thrown("Buffer.from(transaction)")
    /\ Delivered =>
          /\ build.result.form = ExpectedForm
          /\ build.result.form = "base64" => build.result.data = Base64(Bytes)
          /\ build.result.form = "bytes" => build.result.data = Bytes
          /\ build.result.form = "object" => build.result.data = <<>>

\* C14: when the fee oracle cannot be reached or its answer holds no numeric
\* estimate (no result, or no numeric priorityFeeEstimate in it), FeeEstimate
\* raises an error and returns no price, and tx delivers no payload with a
\* price directive in it.
FeeAnswered == net.fee.kind # "none"

NoEstimate == net.fee.kind \in {"rejected", "noResult", "noEstimate"}

HasPrice(ixs) == \E i \in 1 .. Len(ixs) : ixs[i].kind = "price"

C14_NoEstimateIsAnError ==
    (FeeAnswered /\ NoEstimate) =>
        /\ FeeEstimate(build.variant, net.fee).threw
        /\ Returned
        /\ build.result.kind = "thrown"
        /\ ~HasPrice(build.result.ixs)

\* C15 as claimed: for every numeric estimate e of the fee oracle the price
\* FeeEstimate returns, the value of the price directive, is max(e, 10000).
\* The estimate is counted in tenths.
Estimate10 == 10 * net.fee.n + net.fee.frac

Priced == Delivered /\ req.fees /\ net.fee.kind = "number"

C15_PriceIsMaxOfEstimateAndFloor ==
    Priced =>
        /\ Final[1].kind = "price"
        /\ 10 * Final[1].val = Max2(Estimate10, 10 * FeeFloor)

\* C15: for every numeric estimate e of the fee oracle the price FeeEstimate
\* returns is max(e without its fraction, 10000): exactly 10000 for an
\* estimate below 10000, else the whole part of e; it is never below 10000.
C15_PriceIsFlooredWholeEstimate ==
    Priced =>
        /\ Final[1].kind = "price"
        /\ Final[1].val >= FeeFloor
        /\ Estimate10 < 10 * FeeFloor => Final[1].val = FeeFloor
        /\ Estimate10 >= 10 * FeeFloor =>
              /\ 10 * Final[1].val <= Estimate10
              /\ Estimate10 < 10 * (Final[1].val + 1)

C15_Witness ==
    /\ Priced
    /\ net.fee = [kind |-> "number", n |-> 20000, frac |-> 5]
    /\ Final[1] = Price(20000)

\* C16: the base64 text a build with serialize and encode delivers decodes
\* to the raw bytes the build with serialize alone delivers for the same
\* request, instructions and checkpoint.
Sextets(t) == SelectSeq(t, LAMBDA c : c # 64)

RECURSIVE Base64Decode(_)
Base64Decode(t) ==
    IF Len(t) < 4 THEN <<>>
    ELSE LET q == SubSeq(t, 1, 4)
             n == Len(Sextets(q))
             c == [i \in 1 .. 4 |-> IF q[i] = 64 THEN 0 ELSE q[i]]
             b == <<c[1] * 4 + c[2] \div 16,
                    (c[2] % 16) * 16 + c[3] \div 4,
                    (c[3] % 4) * 64 + c[4]>>
         IN  SubSeq(b, 1, n - 1) \o Base64Decode(SubSeq(t, 5, Len(t)))

SerializeOnly ==
    Finalize(build.variant, [req EXCEPT !.encode = FALSE], Final,
             build.result.blockhash)

Encoded == Delivered /\ req.serialize /\ req.encode

C16_Base64RoundTrip ==
    Encoded =>
        /\ build.result.form = "base64"
        /\ SerializeOnly.form = "bytes"
        /\ Len(build.result.data) % 4 = 0
        /\ Base64Decode(build.result.data) = SerializeOnly.data

C16_Witness ==
    /\ Encoded /\ ~req.compute /\ ~req.fees
    /\ Final = <<User(1)>>
    /\ Len(SerializeOnly.data) % 3 = 2
    /\ Base64Decode(build.result.data) = SerializeOnly.data

\* C17: tx never retries: one call of tx issues at most one
\* simulateTransaction and at most one getPriorityFeeEstimate, and a failed
\* simulation or a failed fee query ends the call without a payload and
\* without a further network call.
Calls(method) == Len(SelectSeq(net.calls, LAMBDA c : c.method = method))

LastCall == net.calls[Len(net.calls)].method

C17_NoRetryFailureEndsBuild ==
    /\ Calls("simulateTransaction") <= 1
    /\ Calls("getPriorityFeeEstimate") <= 1
    /\ SimulationErr =>
          Returned /\ ~Delivered /\ LastCall = "simulateTransaction"
    /\ (FeeAnswered /\ NoEstimate) =>
          Returned /\ ~Delivered /\ LastCall = "getPriorityFeeEstimate"

\* C18: when tx has returned, the instruction list the caller passed has
\* the length, the order and the contents it had when tx was called.
C18_CallerInstructionsUntouched ==
    Returned => req.instructions = net.orig

\* C19: at no time is more than one getSignatureStatuses query of a poll
\* awaiting its response, however long a response takes.
C19_OneQueryInFlight ==
    poll.inflight <= 1

\* C20: with compute and fee optimization both enabled the two estimations
\* run one after the other: the fee oracle is asked only once the
\* simulation has answered; the instructions it is sent are the limit
\* directive of ceil(consumed units * tolerance) followed by the caller's
\* instructions; and the simulation, the fee query and the final payload
\* use the checkpoint of the one getLatestBlockhash call of the build.
CallOf(method) ==
    net.calls[CHOOSE i \in 1 .. Len(net.calls) : net.calls[i].method = method]

C20_FeeQueryFollowsSimulation ==
    (req.compute /\ req.fees /\ Called("getPriorityFeeEstimate")) =>
        LET sim == CallOf("simulateTransaction")
            fee == CallOf("getPriorityFeeEstimate")
        IN  /\ net.calls[1].method = "getLatestBlockhash"
            /\ net.calls[2] = sim
            /\ net.calls[3] = fee
            /\ Len(net.calls) = 3
            /\ net.sim.ok
            /\ Len(fee.ixs) = Len(net.orig) + 1
            /\ Head(fee.ixs).kind = "limit"
            /\ IsCeil(Head(fee.ixs).val, net.sim.units, req.tolerance)
            /\ Tail(fee.ixs) = net.orig
            /\ sim.ixs = <<Limit(SimCeiling)>> \o net.orig
            /\ Calls("getLatestBlockhash") = 1
            /\ sim.blockhash = build.blockhash
            /\ fee.blockhash = build.blockhash
            /\ Delivered => build.result.blockhash = build.blockhash

LastAllowed ==
    /\ ~obs.finalized /\ ~obs.rejected
    /\ obs.decided = poll.max - 1
    /\ obs'.decided = poll.max
    /\ IsFinalized(obs'.last)

C22_SetOnceFinalizedBeatsTimeout ==
    /\ [][Settled => poll'.promise = poll.promise]_pollVars
    /\ [][LastAllowed =>
              /\ ConfirmationState(poll'.promise) =
                     (IF HasErr(obs'.last) THEN "FailedOnChain" ELSE "Finalized")
              /\ poll'.promise.secs = 0]_pollVars

C22_Witness ==
    /\ poll.variant = "ts" /\ poll.max = 2
    /\ obs.decided = 2 /\ obs.issued = 2 /\ obs.last = "finalized"
    /\ ~obs.rejected
    /\ poll.start = 3
    /\ State = "Finalized"

\* C23: on runs with no failed query and every response before the next
\* tick, status of build.ts and status of build.js, called with the same
\* maxAttempts >= 1 and given the same responses, have at every moment
\* issued the same number of queries, are in the same ConfirmationState
\* with the same seconds in the timeout message, settled on the same tick,
\* and have stopped or not stopped their timers alike.
Ts == twin.inv["ts"]
Js == twin.inv["js"]

C23_VariantsAgree ==
    /\ Ts.issued = Js.issued
    /\ ConfirmationState(Ts.poll.promise) = ConfirmationState(Js.poll.promise)
    /\ Ts.poll.promise.secs = Js.poll.promise.secs
    /\ Ts.at = Js.at
    /\ Ts.poll.intervalID = Js.poll.intervalID
    /\ Ts.poll.inflight = Js.poll.inflight

C23_Witness ==
    /\ Ts.poll.max = 3 /\ Js.poll.max = 3
    /\ twin.ticks = 3 /\ Ts.issued = 3 /\ Js.issued = 3
    /\ Ts.at = 3 /\ Js.at = 3
    /\ Ts.poll.promise = MaxWait(Ts.poll)
    /\ Js.poll.promise = MaxWait(Js.poll)
    /\ Ts.poll.start = 4 /\ Js.poll.start = 4

=============================================================================
